---- MODULE Spec2Model ----
(***************************************************************************)
(* Model of the pothole detector (services/potholeDetector.ts, held in     *)
(* src/unnamed/part_000 lines 421-579) and of the React application that   *)
(* drives it (src/App.tsx).                                                *)
(*                                                                         *)
(* Numbers.  JavaScript numbers are modelled as exact rationals <<n, d>>   *)
(* with d > 0 in lowest terms, extended with the three non-finite values   *)
(* a division can produce: NaN = <<0,0>>, +Infinity = <<1,0>> and          *)
(* -Infinity = <<-1,0>>.  Rounding of double arithmetic is not modelled:    *)
(* every finite result is exact.  The narrowing of the input tensor's      *)
(* elements to single precision is modelled (Fround).                      *)
(***************************************************************************)
EXTENDS Integers, Sequences, FiniteSets, TLC

VARIABLES
    session,      \* PotholeDetector.session: NULL or the created session
    initPending,  \* number of initialize() calls awaiting InferenceSession.create
    initFailed,   \* history: some initialize() call on this instance has rejected
    initResolved, \* history: some initialize() call on this instance has resolved
    calls,        \* detect() calls of this instance, by caller
    \* App.tsx: React state
    detector,     \* TRUE once setDetector(detectorInstance) has run
    imageSrc,     \* 0 for null, else the number of the uploaded file
    detections,   \* 0 for [], else the file whose boxes it holds
    isLoading,
    error,
    isWebcamOn,
    isFullscreen,
    \* App.tsx: refs, DOM and outstanding asynchronous work
    modelInit,    \* initializeModel: "pending", "resolved" or "rejected"
    nextFile,     \* number of files chosen so far
    pendingReads, \* files a FileReader is still reading
    starts,       \* START LIVE attempts: "none", "gum", "meta" or "over"
    videoSrc,     \* videoRef.current.srcObject: 0 for null, else the stream
    videoReady,   \* videoRef.current.readyState >= 2
    liveStreams,  \* camera streams whose tracks have not been stopped
    loops,        \* runLiveDetection chains: "none", "detecting", "frame", "dead"
    animationFrameId, \* 0 for null, else the chain that requested the last frame
    scan,         \* 0, or the file a runDetection's detect() is in flight for
    \* preprocess: the pixels read back and the tensor built from them
    data,         \* ctx.getImageData(...).data: <<>> before it is read
    float32Data   \* the Float32Array handed to ort.Tensor: <<>> before it is built

NULL == "null"

\* PotholeDetector.session before any initialize() has resolved
NoSession == <<>>

-----------------------------------------------------------------------------
(* JavaScript number arithmetic *)

\* undefined, the value of a read past the end of a typed array; arithmetic
\* and comparisons convert it to NaN
Undefined == <<>>

NaN == <<0, 0>>
PosInf == <<1, 0>>
NegInf == <<-1, 0>>

Abs(i) == IF i < 0 THEN -i ELSE i

Sgn(i) == IF i < 0 THEN -1 ELSE IF i > 0 THEN 1 ELSE 0

RECURSIVE Gcd(_, _)
Gcd(a, b) == IF b = 0 THEN a ELSE Gcd(b, a % b)

\* the finite number n/d (d # 0) in lowest terms with a positive denominator
Rat(n, d) ==
    LET g == Gcd(Abs(n), Abs(d))
        s == IF d < 0 THEN -1 ELSE 1
    IN  <<(s * n) \div g, (s * d) \div g>>

Num(n) == <<n, 1>>

\* isNaN(a): ToNumber(undefined) is NaN
IsNaN(a) == a = NaN \/ a = Undefined

IsFinite(a) == ~IsNaN(a) /\ a[2] # 0

JsNeg(a) == IF IsNaN(a) THEN NaN ELSE <<-a[1], a[2]>>

JsAdd(a, b) ==
    IF IsNaN(a) \/ IsNaN(b) THEN NaN
    ELSE IF ~IsFinite(a) /\ ~IsFinite(b) THEN (IF a = b THEN a ELSE NaN)
    ELSE IF ~IsFinite(a) THEN a
    ELSE IF ~IsFinite(b) THEN b
    ELSE Rat(a[1] * b[2] + b[1] * a[2], a[2] * b[2])

JsSub(a, b) == JsAdd(a, JsNeg(b))

JsMul(a, b) ==
    IF IsNaN(a) \/ IsNaN(b) THEN NaN
    ELSE IF ~IsFinite(a) \/ ~IsFinite(b)
         THEN (IF a[1] = 0 \/ b[1] = 0 THEN NaN ELSE <<Sgn(a[1]) * Sgn(b[1]), 0>>)
    ELSE Rat(a[1] * b[1], a[2] * b[2])

\* a / b: 0/0 is NaN, x/0 is an infinity with the sign of x
JsDiv(a, b) ==
    IF IsNaN(a) \/ IsNaN(b) THEN NaN
    ELSE IF ~IsFinite(a) THEN (IF ~IsFinite(b) THEN NaN
                               ELSE <<a[1] * (IF b[1] < 0 THEN -1 ELSE 1), 0>>)
    ELSE IF ~IsFinite(b) THEN Num(0)
    ELSE IF b[1] = 0 THEN <<Sgn(a[1]), 0>>
    ELSE Rat(a[1] * b[2], a[2] * b[1])

\* a < b: false as soon as one side is NaN
JsLess(a, b) ==
    IF IsNaN(a) \/ IsNaN(b) THEN FALSE
    ELSE IF ~IsFinite(a) \/ ~IsFinite(b)
         THEN (IF a = b THEN FALSE ELSE (a = NegInf \/ b = PosInf))
    ELSE a[1] * b[2] < b[1] * a[2]

\* a <= b and a >= b, false as soon as one side is NaN
JsLeq(a, b) == ~IsNaN(a) /\ ~IsNaN(b) /\ ~JsLess(b, a)

JsGeq(a, b) == JsLeq(b, a)

\* Math.min / Math.max of two numbers: NaN if either is NaN
MathMin(a, b) == IF IsNaN(a) \/ IsNaN(b) THEN NaN ELSE IF JsLess(b, a) THEN b ELSE a

MathMax(a, b) == IF IsNaN(a) \/ IsNaN(b) THEN NaN ELSE IF JsLess(a, b) THEN b ELSE a

-----------------------------------------------------------------------------
(* Configuration of PotholeDetector *)

modelWidth == 640
modelHeight == 640
confidenceThreshold == Rat(1, 2)
iouThreshold == Rat(9, 20)

\* numBoxes of postprocess is 8400 in the source; the model decodes NumBoxes
\* candidates with the same channel-major layout
NumBoxes == 3
boxDataSize == 5

-----------------------------------------------------------------------------
(* preprocess: the letterbox geometry.  drawImage's arguments are kept as    *)
(* the record of what was drawn; the tensor is modelled further below, as a *)
(* function of the pixels read back from the canvas.                        *)

\* sizes of the rasters handed to detect(): <<sourceWidth, sourceHeight>>
SourceSizes ==
    { <<1280, 720>>, <<640, 640>>, <<720, 1280>>, <<640, 480>>, <<320, 320>> }

\* a variant that scales the source to cover the model frame
PreprocessCover(image) ==
    LET sourceWidth == Num(image[1])
        sourceHeight == Num(image[2])
        scale == MathMax(JsDiv(Num(modelWidth), sourceWidth),
                         JsDiv(Num(modelHeight), sourceHeight))
        scaledWidth == JsMul(sourceWidth, scale)
        scaledHeight == JsMul(sourceHeight, scale)
        dx == JsDiv(JsSub(Num(modelWidth), scaledWidth), Num(2))
        dy == JsDiv(JsSub(Num(modelHeight), scaledHeight), Num(2))
    IN  [ scale |-> scale,
          draw |-> [dx |-> dx, dy |-> dy, dw |-> scaledWidth, dh |-> scaledHeight],
          scaleX |-> JsDiv(sourceWidth, scaledWidth),
          scaleY |-> JsDiv(sourceHeight, scaledHeight) ]

Preprocess(image) ==
    LET sourceWidth == Num(image[1])
        sourceHeight == Num(image[2])
        scale == MathMin(JsDiv(Num(modelWidth), sourceWidth),
                         JsDiv(Num(modelHeight), sourceHeight))
        scaledWidth == JsMul(sourceWidth, scale)
        scaledHeight == JsMul(sourceHeight, scale)
        dx == JsDiv(JsSub(Num(modelWidth), scaledWidth), Num(2))
        dy == JsDiv(JsSub(Num(modelHeight), scaledHeight), Num(2))
    IN  [ scale |-> scale,
          \* ctx.drawImage(image, dx, dy, scaledWidth, scaledHeight)
          draw |-> [dx |-> dx, dy |-> dy, dw |-> scaledWidth, dh |-> scaledHeight],
          scaleX |-> JsDiv(sourceWidth, scaledWidth),
          scaleY |-> JsDiv(sourceHeight, scaledHeight) ]

-----------------------------------------------------------------------------
(* postprocess: decoding, confidence filter, NMS, rescaling *)

\* outputData[k] with JavaScript's 0-based index; a Float32Array read out of
\* bounds is undefined
At(outputData, k) ==
    IF k + 1 \in DOMAIN outputData THEN outputData[k + 1] ELSE Undefined

\* a variant that reads the buffer as [1, 8400, 5], one candidate after another
DecodeBoxRowMajor(outputData, i) ==
    LET confidence == At(outputData, i * boxDataSize + 4)
        cx == At(outputData, i * boxDataSize)
        cy == At(outputData, i * boxDataSize + 1)
        w == At(outputData, i * boxDataSize + 2)
        h == At(outputData, i * boxDataSize + 3)
    IN  [ x1 |-> JsSub(cx, JsDiv(w, Num(2))),
          y1 |-> JsSub(cy, JsDiv(h, Num(2))),
          x2 |-> JsAdd(cx, JsDiv(w, Num(2))),
          y2 |-> JsAdd(cy, JsDiv(h, Num(2))),
          confidence |-> confidence,
          label |-> "pothole",
          ref |-> i ]

\* a variant with the two corners exchanged
DecodeBoxSwapped(outputData, i) ==
    LET confidence == At(outputData, 4 * NumBoxes + i)
        cx == At(outputData, i)
        cy == At(outputData, NumBoxes + i)
        w == At(outputData, 2 * NumBoxes + i)
        h == At(outputData, 3 * NumBoxes + i)
    IN  [ x1 |-> JsAdd(cx, JsDiv(w, Num(2))),
          y1 |-> JsAdd(cy, JsDiv(h, Num(2))),
          x2 |-> JsSub(cx, JsDiv(w, Num(2))),
          y2 |-> JsSub(cy, JsDiv(h, Num(2))),
          confidence |-> confidence,
          label |-> "pothole",
          ref |-> i ]

\* the box pushed by the decoding loop at index i; ref stands for the identity
\* of the object created there (JavaScript compares objects by reference)
DecodeBox(outputData, i) ==
    LET confidence == At(outputData, 4 * NumBoxes + i)
        cx == At(outputData, i)
        cy == At(outputData, NumBoxes + i)
        w == At(outputData, 2 * NumBoxes + i)
        h == At(outputData, 3 * NumBoxes + i)
    IN  [ x1 |-> JsSub(cx, JsDiv(w, Num(2))),
          y1 |-> JsSub(cy, JsDiv(h, Num(2))),
          x2 |-> JsAdd(cx, JsDiv(w, Num(2))),
          y2 |-> JsAdd(cy, JsDiv(h, Num(2))),
          confidence |-> confidence,
          label |-> "pothole",
          ref |-> i ]

\* a variant with the comparison turned around
BelowThresholdInverted(confidence) == JsLess(confidenceThreshold, confidence)

\* if (confidence < this.confidenceThreshold) continue;
BelowThreshold(confidence) == JsLess(confidence, confidenceThreshold)

RECURSIVE DecodeFrom(_, _)
DecodeFrom(outputData, i) ==
    IF i >= NumBoxes THEN <<>>
    ELSE IF BelowThreshold(At(outputData, 4 * NumBoxes + i))
         THEN DecodeFrom(outputData, i + 1)
    ELSE <<DecodeBox(outputData, i)>> \o DecodeFrom(outputData, i + 1)

DecodeBoxes(outputData) == DecodeFrom(outputData, 0)

IntersectionArea(box1, box2) ==
    LET x1 == MathMax(box1.x1, box2.x1)
        y1 == MathMax(box1.y1, box2.y1)
        x2 == MathMin(box1.x2, box2.x2)
        y2 == MathMin(box1.y2, box2.y2)
    IN  JsMul(MathMax(Num(0), JsSub(x2, x1)), MathMax(Num(0), JsSub(y2, y1)))

UnionArea(box1, box2) ==
    LET box1Area == JsMul(JsSub(box1.x2, box1.x1), JsSub(box1.y2, box1.y1))
        box2Area == JsMul(JsSub(box2.x2, box2.x1), JsSub(box2.y2, box2.y1))
    IN  JsSub(JsAdd(box1Area, box2Area), IntersectionArea(box1, box2))

\* return intersectionArea / unionArea;
CalculateIoU(box1, box2) ==
    JsDiv(IntersectionArea(box1, box2), UnionArea(box1, box2))

\* boxes.sort((a, b) => b.confidence - a.confidence): Array.prototype.sort is
\* stable, so boxes of equal confidence keep their decoding order
RECURSIVE InsertSorted(_, _)
InsertSorted(sorted, box) ==
    IF sorted = <<>> THEN <<box>>
    ELSE IF JsLess(Head(sorted).confidence, box.confidence)
         THEN <<box>> \o sorted
    ELSE <<Head(sorted)>> \o InsertSorted(Tail(sorted), box)

\* a variant that leaves the candidates in the order given
SortSkipped(boxes) == boxes

RECURSIVE SortByConfidence(_)
SortByConfidence(boxes) ==
    IF boxes = <<>> THEN <<>>
    ELSE InsertSorted(SortByConfidence(SubSeq(boxes, 1, Len(boxes) - 1)),
                      boxes[Len(boxes)])

\* a variant that compares the IoU with the confidence threshold
KeepsWrongThreshold(selected, box) ==
    JsLess(CalculateIoU(selected, box), confidenceThreshold)

\* if (iou < this.iouThreshold) remainingBoxes.push(sortedBoxes[i]);
Keeps(selected, box) == JsLess(CalculateIoU(selected, box), iouThreshold)

\* a variant in which a selected box whose IoU with itself is undefined stays
\* in the list for one more iteration
RECURSIVE NmsLoopRevisiting(_)
NmsLoopRevisiting(sortedBoxes) ==
    IF Len(sortedBoxes) = 0 THEN <<>>
    ELSE LET selected == sortedBoxes[1]
             remainingBoxes ==
                 SelectSeq(Tail(sortedBoxes), LAMBDA b : Keeps(selected, b))
             again == IF IsNaN(CalculateIoU(selected, selected))
                      THEN <<selected>> ELSE <<>>
         IN  <<selected>> \o again \o NmsLoopRevisiting(remainingBoxes)

\* the while loop of nonMaxSuppression on the sorted list
RECURSIVE NmsLoop(_)
NmsLoop(sortedBoxes) ==
    IF Len(sortedBoxes) = 0 THEN <<>>
    ELSE LET selected == sortedBoxes[1]
             remainingBoxes ==
                 SelectSeq(Tail(sortedBoxes), LAMBDA b : Keeps(selected, b))
         IN  <<selected>> \o NmsLoop(remainingBoxes)

NonMaxSuppression(boxes) == NmsLoop(SortByConfidence(boxes))

\* a variant with the sign of the scaled size turned around
PostOffsetsSum(scaleX, scaleY) ==
    LET scaledModelWidth == JsDiv(Num(modelWidth), scaleX)
        scaledModelHeight == JsDiv(Num(modelHeight), scaleY)
    IN  [ dx |-> JsDiv(JsAdd(Num(modelWidth), scaledModelWidth), Num(2)),
          dy |-> JsDiv(JsAdd(Num(modelHeight), scaledModelHeight), Num(2)) ]

\* the offsets postprocess recomputes from scaleX and scaleY
PostOffsets(scaleX, scaleY) ==
    LET scaledModelWidth == JsDiv(Num(modelWidth), scaleX)
        scaledModelHeight == JsDiv(Num(modelHeight), scaleY)
    IN  [ dx |-> JsDiv(JsSub(Num(modelWidth), scaledModelWidth), Num(2)),
          dy |-> JsDiv(JsSub(Num(modelHeight), scaledModelHeight), Num(2)) ]

\* a variant that clamps the rescaled coordinates at the source's origin
RescaleBoxClamped(box, scaleX, scaleY) ==
    LET off == PostOffsets(scaleX, scaleY)
    IN  [ box EXCEPT
            !.x1 = MathMax(Num(0), JsMul(JsSub(box.x1, off.dx), scaleX)),
            !.y1 = MathMax(Num(0), JsMul(JsSub(box.y1, off.dy), scaleY)),
            !.x2 = MathMax(Num(0), JsMul(JsSub(box.x2, off.dx), scaleX)),
            !.y2 = MathMax(Num(0), JsMul(JsSub(box.y2, off.dy), scaleY)) ]

\* boxes.map(box => ({...box, x1: ..., y1: ..., x2: ..., y2: ...}))
RescaleBox(box, scaleX, scaleY) ==
    LET off == PostOffsets(scaleX, scaleY)
    IN  [ box EXCEPT !.x1 = JsMul(JsSub(box.x1, off.dx), scaleX),
                     !.y1 = JsMul(JsSub(box.y1, off.dy), scaleY),
                     !.x2 = JsMul(JsSub(box.x2, off.dx), scaleX),
                     !.y2 = JsMul(JsSub(box.y2, off.dy), scaleY) ]

Rescale(nmsBoxes, scaleX, scaleY) ==
    [ k \in 1..Len(nmsBoxes) |-> RescaleBox(nmsBoxes[k], scaleX, scaleY) ]

Postprocess(outputData, scaleX, scaleY) ==
    LET boxes == DecodeBoxes(outputData)
        nmsBoxes == NonMaxSuppression(boxes)
    IN  [ boxes |-> boxes,
          nmsBoxes |-> nmsBoxes,
          result |-> Rescale(nmsBoxes, scaleX, scaleY) ]

-----------------------------------------------------------------------------
(* preprocess: from the canvas pixels to the input tensor.  The canvas of    *)
(* modelWidth x modelHeight pixels is modelled by one of NumPixels pixels.   *)

\* the number of pixels of the canvas
NumPixels == 2

\* channel values a pixel can hold: black, the padding colour and white
Bytes == {0, 114, 255}

\* the canvas is filled with an opaque colour before the source is drawn on
\* it, so every pixel read back is opaque
Alpha == 255

\* ctx.getImageData(0, 0, modelWidth, modelHeight).data: R, G, B, A of the
\* first pixel, then of the second, ...
RECURSIVE PixelData(_)
PixelData(n) ==
    IF n = 0 THEN {<<>>}
    ELSE { rest \o <<r, g, b, Alpha>> :
             rest \in PixelData(n - 1), r \in Bytes, g \in Bytes, b \in Bytes }

RECURSIVE Pow2(_)
Pow2(k) == IF k = 0 THEN 1 ELSE 2 * Pow2(k - 1)

\* the least e with n * 2^e >= d, for 0 < n
RECURSIVE BinaryExponent(_, _)
BinaryExponent(n, d) == IF n >= d THEN 0 ELSE 1 + BinaryExponent(2 * n, d)

\* steps more binary digits of r/d appended to q, and the remainder left
RECURSIVE BinaryDigits(_, _, _, _)
BinaryDigits(q, r, d, steps) ==
    IF steps = 0 THEN <<q, r>>
    ELSE LET bit == IF 2 * r >= d THEN 1 ELSE 0
         IN  BinaryDigits(2 * q + bit, 2 * r - bit * d, d, steps - 1)

\* the conversion of a number to a Float32Array element: the nearest number
\* with a significand of 24 bits, ties to even.  Defined here for NaN, 0 and
\* the numbers from 1/128 up to (not including) 2, which is where the
\* integers involved stay within 32 bits.
Fround(a) ==
    IF IsNaN(a) THEN NaN
    ELSE IF ~IsFinite(a) \/ a[1] = 0 THEN a
    ELSE LET e == BinaryExponent(a[1], a[2])
             qr == BinaryDigits(a[1] \div a[2], a[1] % a[2], a[2], e + 23)
             up == 2 * qr[2] > a[2] \/ (2 * qr[2] = a[2] /\ qr[1] % 2 = 1)
         IN  Rat(qr[1] + (IF up THEN 1 ELSE 0), Pow2(e + 23))

\* a variant that keeps the interleaved order of the pixels
ToTensorInterleaved(pixels) ==
    LET n == (Len(pixels) + 3) \div 4
    IN  [ k \in 1..(3 * n) |->
            Fround(JsDiv(Num(pixels[4 * ((k - 1) \div 3) + ((k - 1) % 3) + 1]),
                         Num(255))) ]

\* the loop over the pixels, red.concat(green, blue) and new Float32Array
ToTensor(pixels) ==
    LET n == (Len(pixels) + 3) \div 4
        Byte(i) == IF i + 1 \in DOMAIN pixels THEN Num(pixels[i + 1]) ELSE Undefined
        red == [ p \in 1..n |-> JsDiv(Byte(4 * (p - 1)), Num(255)) ]
        green == [ p \in 1..n |-> JsDiv(Byte(4 * (p - 1) + 1), Num(255)) ]
        blue == [ p \in 1..n |-> JsDiv(Byte(4 * (p - 1) + 2), Num(255)) ]
        transposedData == red \o green \o blue
    IN  [ k \in 1..Len(transposedData) |-> Fround(transposedData[k]) ]

-----------------------------------------------------------------------------
(* The inference engine: session.run resolves with any output buffer.       *)

\* candidates <<cx, cy, w, h, confidence>> the engine may report
EngineDetections ==
    { <<Num(320), Num(320), Num(640), Num(360), Rat(9, 10)>>,
      <<Num(320), Num(320), Num(360), Num(640), Rat(7, 10)>>,
      <<Num(320), Num(320), Num(640), Num(480), Rat(1, 2)>>,
      <<Num(320), Num(320), Num(0), Num(360), Rat(9, 10)>>,
      <<Num(320), Num(320), Num(0), Num(360), Rat(3, 5)>>,
      <<Num(320), Num(320), Num(-40), Num(360), Rat(4, 5)>>,
      <<Num(100), Num(100), Num(40), Num(-40), Rat(4, 5)>>,
      <<Num(100), Num(100), Num(40), Num(40), Rat(2, 5)>>,
      <<Num(100), Num(100), Num(40), Num(40), Rat(6, 5)>> }

\* the [1, 5, numBoxes] output as a flat buffer: all cx, then all cy, all w,
\* all h, all confidences
Flatten(dets) ==
    [ k \in 1..(boxDataSize * NumBoxes) |->
        dets[((k - 1) % NumBoxes) + 1][((k - 1) \div NumBoxes) + 1] ]

EngineOutputs == { Flatten(dets) : dets \in [1..NumBoxes -> EngineDetections] }

\* the outputs used where several calls are in flight at once
FewDetections ==
    { <<Num(320), Num(320), Num(640), Num(360), Rat(9, 10)>>,
      <<Num(100), Num(100), Num(40), Num(40), Rat(2, 5)>> }

FewOutputs == { Flatten([i \in 1..NumBoxes |-> d]) : d \in FewDetections }

FewSizes == { <<1280, 720>>, <<640, 640>> }

-----------------------------------------------------------------------------
(* PotholeDetector: initialize() and detect() *)

\* how many sessions the model lets one instance create (a cap on the serial
\* number that stands for the session object's identity)
MaxInit == 2

\* how many callers may have a detect() call outstanding at once
MaxCalls == 2

detectorVars == <<session, initPending, initFailed, initResolved, calls>>

appVars ==
    <<detector, imageSrc, detections, isLoading, error, isWebcamOn, isFullscreen,
      modelInit, nextFile, pendingReads, starts, videoSrc, videoReady,
      liveStreams, loops, animationFrameId, scan>>

tensorVars == <<data, float32Data>>

vars == <<detectorVars, appVars, tensorVars>>

IdleCall ==
    [ st |-> "idle", error |-> NULL, image |-> <<>>, afterInitFailure |-> FALSE,
      preprocessed |-> FALSE, engineInvoked |-> FALSE,
      scale |-> NaN, draw |-> <<>>, scaleX |-> NaN, scaleY |-> NaN,
      outputData |-> <<>>, boxes |-> <<>>, nmsBoxes |-> <<>>, result |-> <<>> ]

\* a variant without the check
SessionAssumed(s) == FALSE

\* if (!this.session)
SessionMissing(s) == s = NoSession

\* initialize() up to its await of InferenceSession.create
SessionSerial == IF session = NoSession THEN 0 ELSE session[1]

InitializeCall ==
    /\ SessionSerial + initPending < MaxInit
    /\ initPending' = initPending + 1
    /\ UNCHANGED <<session, initFailed, initResolved, calls, appVars, tensorVars>>

\* InferenceSession.create resolves: this.session = <the new session>
CreateResolves ==
    /\ initPending > 0
    /\ initPending' = initPending - 1
    /\ session' = <<SessionSerial + 1>>
    /\ initResolved' = TRUE
    /\ UNCHANGED <<initFailed, calls, appVars, tensorVars>>

\* a variant in which a failed initialize() clears the session
CreateRejectsClearing ==
    /\ initPending > 0
    /\ initPending' = initPending - 1
    /\ initFailed' = TRUE
    /\ session' = NoSession
    /\ UNCHANGED <<initResolved, calls, appVars, tensorVars>>

\* InferenceSession.create rejects: initialize() rejects, nothing is assigned
CreateRejects ==
    /\ initPending > 0
    /\ initPending' = initPending - 1
    /\ initFailed' = TRUE
    /\ UNCHANGED <<session, initResolved, calls, appVars, tensorVars>>

\* ctx.drawImage(image, ...) throws InvalidStateError for an <img> whose
\* request is in the broken state; for an image that is not fully decodable
\* or has a natural width or height of zero, and for a video without a frame,
\* it returns without drawing.  The state is the third component of a source
\* that names one.
DrawImageThrows(image) == Len(image) >= 3 /\ image[3] = "broken"

\* the detect() calls awaiting session.run
InFlight == {d \in DOMAIN calls : calls[d].st = "running"}

\* detect(image) up to its await of session.run
DetectCall(c, image) ==
    /\ calls[c].st = "idle"
    /\ IF SessionMissing(session)
       THEN calls' = [calls EXCEPT ![c] =
                [IdleCall EXCEPT !.st = "rejected", !.error = "NotInitialized",
                                 !.image = image, !.afterInitFailure = initFailed]]
       ELSE IF DrawImageThrows(image)
       THEN calls' = [calls EXCEPT ![c] =
                [IdleCall EXCEPT !.st = "rejected", !.error = "InvalidStateError",
                                 !.image = image, !.afterInitFailure = initFailed,
                                 !.preprocessed = TRUE]]
       ELSE LET p == Preprocess(image)
            IN  calls' = [calls EXCEPT ![c] =
                    [IdleCall EXCEPT !.st = "running", !.image = image,
                                     !.afterInitFailure = initFailed,
                                     !.preprocessed = TRUE,
                                     !.scale = p.scale, !.draw = p.draw,
                                     !.scaleX = p.scaleX, !.scaleY = p.scaleY,
                                     !.engineInvoked = TRUE]]
    /\ UNCHANGED <<session, initPending, initFailed, initResolved, appVars, tensorVars>>

\* a variant in which scaleX and scaleY are kept in fields of the detector,
\* so that postprocess reads what the latest preprocess of a call still in
\* flight has stored
RunResolvesSharedScale(c, outputData) ==
    /\ calls[c].st = "running"
    /\ LET others == InFlight \ {c}
           last == IF others = {} THEN c ELSE CHOOSE d \in others : TRUE
           post == Postprocess(outputData, calls[last].scaleX, calls[last].scaleY)
       IN  calls' = [calls EXCEPT ![c] =
               [@ EXCEPT !.st = "resolved", !.outputData = outputData,
                         !.boxes = post.boxes, !.nmsBoxes = post.nmsBoxes,
                         !.result = post.result]]
    /\ UNCHANGED <<session, initPending, initFailed, initResolved, appVars, tensorVars>>

\* session.run resolves with outputData: detect() returns postprocess(...)
RunResolves(c, outputData) ==
    /\ calls[c].st = "running"
    /\ LET post == Postprocess(outputData, calls[c].scaleX, calls[c].scaleY)
       IN  calls' = [calls EXCEPT ![c] =
               [@ EXCEPT !.st = "resolved", !.outputData = outputData,
                         !.boxes = post.boxes, !.nmsBoxes = post.nmsBoxes,
                         !.result = post.result]]
    /\ UNCHANGED <<session, initPending, initFailed, initResolved, appVars, tensorVars>>

\* a variant that catches the engine's error and returns no boxes
RunRejectsSwallowing(c) ==
    /\ calls[c].st = "running"
    /\ calls' = [calls EXCEPT ![c] = [@ EXCEPT !.st = "resolved"]]
    /\ UNCHANGED <<session, initPending, initFailed, initResolved, appVars, tensorVars>>

\* session.run rejects: detect() rejects with the engine's error
RunRejects(c) ==
    /\ calls[c].st = "running"
    /\ calls' = [calls EXCEPT ![c] = [@ EXCEPT !.st = "rejected", !.error = "RunFailed"]]
    /\ UNCHANGED <<session, initPending, initFailed, initResolved, appVars, tensorVars>>

\* the caller has taken the settled promise and may call again
Settled(c) ==
    /\ calls[c].st \in {"resolved", "rejected"}
    /\ calls' = [calls EXCEPT ![c] = IdleCall]
    /\ UNCHANGED <<session, initPending, initFailed, initResolved, appVars, tensorVars>>


-----------------------------------------------------------------------------
(* App.tsx.  One action is one event handler or one continuation after an   *)
(* await, together with the render and the effects its state updates cause. *)
(* The detector is used through detect() alone, which changes none of its   *)
(* fields: a call in flight is a promise that resolves or rejects.          *)

\* how many files are chosen, how many times START LIVE is clicked, and how
\* many times the live-detection effect starts runLiveDetection
MaxUploads == 2
MaxStarts == 2
MaxLoops == 2

AppInit ==
    /\ detector = FALSE
    /\ imageSrc = 0
    /\ detections = 0
    /\ isLoading = TRUE
    /\ error = NULL
    /\ isWebcamOn = FALSE
    /\ isFullscreen = FALSE
    /\ modelInit = "pending"
    /\ nextFile = 0
    /\ pendingReads = {}
    /\ starts = [a \in 1..MaxStarts |-> "none"]
    /\ videoSrc = 0
    /\ videoReady = FALSE
    /\ liveStreams = {}
    /\ loops = [l \in 1..MaxLoops |-> "none"]
    /\ animationFrameId = 0
    /\ scan = 0

\* the effect's cleanup: cancelAnimationFrame(animationFrameId.current) stops
\* the chain whose requested frame is still pending under that id
Cancelled ==
    IF animationFrameId # 0 /\ loops[animationFrameId] = "frame"
    THEN [loops EXCEPT ![animationFrameId] = "dead"]
    ELSE loops

\* runLiveDetection as run by the closure of chain l, past its first guard
\* (the closure holds isWebcamOn = true and the detector): detect() if the
\* video has data and the detection interval has passed, else draw the old
\* detections; in the latter case, request the next frame.  pass is the
\* outcome of timeSinceLastDetection > detectionInterval.
RunLiveDetection(l, from, pass) ==
    IF videoReady' /\ pass
    THEN /\ loops' = [from EXCEPT ![l] = "detecting"]
         /\ UNCHANGED animationFrameId
    ELSE /\ loops' = [from EXCEPT ![l] = "frame"]
         /\ animationFrameId' = l

\* the effect on [isWebcamOn, detector, runLiveDetection] after a render:
\* replaced says that setDetections was called (a new array, so a new
\* runLiveDetection).  When a dependency changed, the cleanup runs and, with
\* the webcam on and a detector, runLiveDetection() starts a new chain.
LiveEffect(replaced) ==
    IF isWebcamOn' # isWebcamOn \/ detector' # detector \/ replaced
    THEN IF isWebcamOn' /\ detector'
         THEN \E l \in 1..MaxLoops, pass \in BOOLEAN :
                  /\ loops[l] = "none"
                  /\ \A k \in 1..(l - 1) : loops[k] # "none"
                  /\ RunLiveDetection(l, Cancelled, pass)
         ELSE /\ loops' = Cancelled
              /\ UNCHANGED animationFrameId
    ELSE UNCHANGED <<loops, animationFrameId>>

\* stream.getTracks().forEach(track => track.stop()) and srcObject = null,
\* for the stream the video element holds
StopVideoStream ==
    /\ liveStreams' = liveStreams \ {videoSrc}
    /\ videoSrc' = 0
    /\ videoReady' = FALSE

\* resetState() as called from a render in which isWebcamOn is wasOn
ResetState(wasOn) ==
    /\ imageSrc' = 0
    /\ detections' = 0
    /\ error' = NULL
    /\ isFullscreen' = FALSE
    /\ IF wasOn /\ videoSrc # 0
       THEN StopVideoStream
       ELSE UNCHANGED <<liveStreams, videoSrc, videoReady>>

\* initializeModel: initialize() resolves
ModelInitResolves ==
    /\ modelInit = "pending"
    /\ modelInit' = "resolved"
    /\ detector' = TRUE
    /\ isLoading' = FALSE
    /\ UNCHANGED <<imageSrc, detections, error, isWebcamOn, isFullscreen, nextFile,
                   pendingReads, starts, videoSrc, videoReady, liveStreams, scan>>
    /\ LiveEffect(FALSE)
    /\ UNCHANGED <<detectorVars, tensorVars>>

\* a variant that stores the instance before initialize() has settled
ModelInitRejectsSettingDetector ==
    /\ modelInit = "pending"
    /\ modelInit' = "rejected"
    /\ detector' = TRUE
    /\ error' = "model"
    /\ isLoading' = FALSE
    /\ UNCHANGED <<imageSrc, detections, isWebcamOn, isFullscreen, nextFile,
                   pendingReads, starts, videoSrc, videoReady, liveStreams, scan>>
    /\ LiveEffect(FALSE)
    /\ UNCHANGED <<detectorVars, tensorVars>>

\* initializeModel: initialize() rejects
ModelInitRejects ==
    /\ modelInit = "pending"
    /\ modelInit' = "rejected"
    /\ error' = "model"
    /\ isLoading' = FALSE
    /\ UNCHANGED <<detector, imageSrc, detections, isWebcamOn, isFullscreen, nextFile,
                   pendingReads, starts, videoSrc, videoReady, liveStreams, scan>>
    /\ LiveEffect(FALSE)
    /\ UNCHANGED <<detectorVars, tensorVars>>

\* handleFileChange with a file chosen (UPLOAD IMAGE is disabled while loading)
HandleFileChange ==
    /\ ~isLoading
    /\ nextFile < MaxUploads
    /\ ResetState(isWebcamOn)
    /\ isWebcamOn' = FALSE
    /\ nextFile' = nextFile + 1
    /\ pendingReads' = pendingReads \cup {nextFile + 1}
    /\ UNCHANGED <<detector, isLoading, modelInit, starts, scan>>
    /\ LiveEffect(TRUE)
    /\ UNCHANGED <<detectorVars, tensorVars>>

\* reader.onload
ReaderOnLoad(f) ==
    /\ f \in pendingReads
    /\ pendingReads' = pendingReads \ {f}
    /\ imageSrc' = f
    /\ UNCHANGED <<detector, detections, isLoading, error, isWebcamOn, isFullscreen,
                   modelInit, nextFile, starts, videoSrc, videoReady, liveStreams,
                   scan>>
    /\ LiveEffect(FALSE)
    /\ UNCHANGED <<detectorVars, tensorVars>>

\* runDetection up to its await (SCAN NOW is shown for an image with the webcam
\* off, and disabled while loading or without a detector)
RunDetection ==
    /\ imageSrc # 0 /\ ~isWebcamOn
    /\ ~isLoading /\ detector
    /\ error' = NULL
    /\ isLoading' = TRUE
    /\ detections' = 0
    /\ scan' = imageSrc
    /\ UNCHANGED <<detector, imageSrc, isWebcamOn, isFullscreen, modelInit, nextFile,
                   pendingReads, starts, videoSrc, videoReady, liveStreams>>
    /\ LiveEffect(TRUE)
    /\ UNCHANGED <<detectorVars, tensorVars>>

\* runDetection: detect() resolves
ScanResolves ==
    /\ scan # 0
    /\ detections' = scan
    /\ isLoading' = FALSE
    /\ scan' = 0
    /\ UNCHANGED <<detector, imageSrc, error, isWebcamOn, isFullscreen, modelInit,
                   nextFile, pendingReads, starts, videoSrc, videoReady, liveStreams>>
    /\ LiveEffect(TRUE)
    /\ UNCHANGED <<detectorVars, tensorVars>>

\* a variant without the finally block: the flag is cleared on success only
ScanRejectsStillLoading ==
    /\ scan # 0
    /\ error' = "detect"
    /\ scan' = 0
    /\ UNCHANGED <<detector, imageSrc, detections, isLoading, isWebcamOn,
                   isFullscreen, modelInit, nextFile, pendingReads, starts, videoSrc,
                   videoReady, liveStreams>>
    /\ LiveEffect(FALSE)
    /\ UNCHANGED <<detectorVars, tensorVars>>

\* runDetection: detect() rejects
ScanRejects ==
    /\ scan # 0
    /\ error' = "detect"
    /\ isLoading' = FALSE
    /\ scan' = 0
    /\ UNCHANGED <<detector, imageSrc, detections, isWebcamOn, isFullscreen,
                   modelInit, nextFile, pendingReads, starts, videoSrc, videoReady,
                   liveStreams>>
    /\ LiveEffect(FALSE)
    /\ UNCHANGED <<detectorVars, tensorVars>>

\* toggleWebcam with the webcam on (STOP LIVE): the tracks are stopped and
\* srcObject is null before resetState() looks at it
StopLive ==
    /\ ~isLoading
    /\ isWebcamOn
    /\ StopVideoStream
    /\ isWebcamOn' = FALSE
    /\ imageSrc' = 0
    /\ detections' = 0
    /\ error' = NULL
    /\ isFullscreen' = FALSE
    /\ UNCHANGED <<detector, isLoading, modelInit, nextFile, pendingReads, starts,
                   scan>>
    /\ LiveEffect(TRUE)
    /\ UNCHANGED <<detectorVars, tensorVars>>

\* toggleWebcam with the webcam off (START LIVE) up to its await of getUserMedia
StartLive(a) ==
    /\ ~isLoading
    /\ ~isWebcamOn
    /\ starts[a] = "none"
    /\ \A b \in 1..(a - 1) : starts[b] # "none"
    /\ ResetState(FALSE)
    /\ starts' = [starts EXCEPT ![a] = "gum"]
    /\ UNCHANGED <<detector, isLoading, isWebcamOn, modelInit, nextFile,
                   pendingReads, scan>>
    /\ LiveEffect(TRUE)
    /\ UNCHANGED <<detectorVars, tensorVars>>

\* getUserMedia resolves with stream a: video.srcObject = stream and
\* video.onloadedmetadata = <the handler of this attempt>, which replaces the
\* handler of an attempt still waiting for its metadata
GetUserMediaResolves(a) ==
    /\ starts[a] = "gum"
    /\ starts' = [b \in 1..MaxStarts |->
                    IF b = a THEN "meta"
                    ELSE IF starts[b] = "meta" THEN "over" ELSE starts[b]]
    /\ videoSrc' = a
    /\ videoReady' = FALSE
    /\ liveStreams' = liveStreams \cup {a}
    /\ UNCHANGED <<detector, imageSrc, detections, isLoading, error, isWebcamOn,
                   isFullscreen, modelInit, nextFile, pendingReads, loops,
                   animationFrameId, scan>>
    /\ UNCHANGED <<detectorVars, tensorVars>>

\* getUserMedia rejects
GetUserMediaRejects(a) ==
    /\ starts[a] = "gum"
    /\ starts' = [starts EXCEPT ![a] = "over"]
    /\ error' = "camera"
    /\ UNCHANGED <<detector, imageSrc, detections, isLoading, isWebcamOn,
                   isFullscreen, modelInit, nextFile, pendingReads, videoSrc,
                   videoReady, liveStreams, scan>>
    /\ LiveEffect(FALSE)
    /\ UNCHANGED <<detectorVars, tensorVars>>

\* loadedmetadata fires for stream a and video.play() resolves
PlayResolves(a) ==
    /\ starts[a] = "meta"
    /\ videoSrc = a
    /\ starts' = [starts EXCEPT ![a] = "over"]
    /\ videoReady' = TRUE
    /\ isWebcamOn' = TRUE
    /\ isFullscreen' = TRUE
    /\ UNCHANGED <<detector, imageSrc, detections, isLoading, error, modelInit,
                   nextFile, pendingReads, videoSrc, liveStreams, scan>>
    /\ LiveEffect(FALSE)
    /\ UNCHANGED <<detectorVars, tensorVars>>

\* loadedmetadata fires for stream a and video.play() rejects
PlayRejects(a) ==
    /\ starts[a] = "meta"
    /\ videoSrc = a
    /\ starts' = [starts EXCEPT ![a] = "over"]
    /\ error' = "play"
    /\ liveStreams' = liveStreams \ {a}
    /\ UNCHANGED <<detector, imageSrc, detections, isLoading, isWebcamOn,
                   isFullscreen, modelInit, nextFile, pendingReads, videoSrc,
                   videoReady, scan>>
    /\ LiveEffect(FALSE)
    /\ UNCHANGED <<detectorVars, tensorVars>>

\* handleReset (RESET is shown for an image or with the webcam on)
HandleReset ==
    /\ imageSrc # 0 \/ isWebcamOn
    /\ ResetState(isWebcamOn)
    /\ isWebcamOn' = FALSE
    /\ UNCHANGED <<detector, isLoading, modelInit, nextFile, pendingReads, starts,
                   scan>>
    /\ LiveEffect(TRUE)
    /\ UNCHANGED <<detectorVars, tensorVars>>

\* the frame requested by chain l fires: runLiveDetection runs again
FrameFires(l) ==
    /\ loops[l] = "frame"
    /\ UNCHANGED <<detector, imageSrc, detections, isLoading, error, isWebcamOn,
                   isFullscreen, modelInit, nextFile, pendingReads, starts,
                   videoSrc, videoReady, liveStreams, scan>>
    /\ \E pass \in BOOLEAN : RunLiveDetection(l, loops, pass)
    /\ UNCHANGED <<detectorVars, tensorVars>>

\* runLiveDetection of chain l: detect() resolves, the boxes are drawn and the
\* next frame is requested
LiveDetectResolves(l) ==
    /\ loops[l] = "detecting"
    /\ loops' = [loops EXCEPT ![l] = "frame"]
    /\ animationFrameId' = l
    /\ UNCHANGED <<detector, imageSrc, detections, isLoading, error, isWebcamOn,
                   isFullscreen, modelInit, nextFile, pendingReads, starts,
                   videoSrc, videoReady, liveStreams, scan>>
    /\ UNCHANGED <<detectorVars, tensorVars>>

\* runLiveDetection of chain l: detect() rejects, nothing catches it and no
\* further frame is requested
LiveDetectRejects(l) ==
    /\ loops[l] = "detecting"
    /\ loops' = [loops EXCEPT ![l] = "dead"]
    /\ UNCHANGED <<detector, imageSrc, detections, isLoading, error, isWebcamOn,
                   isFullscreen, modelInit, nextFile, pendingReads, starts,
                   videoSrc, videoReady, liveStreams, animationFrameId, scan>>
    /\ UNCHANGED <<detectorVars, tensorVars>>

-----------------------------------------------------------------------------
(* One detect() at a time on an initialized detector, any engine output *)

\* no pixels have been read back
TensorIdle ==
    /\ data = <<>>
    /\ float32Data = <<>>

Init ==
    /\ AppInit
    /\ TensorIdle
    /\ session = <<1>>
    /\ initPending = 0
    /\ initFailed = FALSE
    /\ initResolved = TRUE
    /\ calls = [c \in {1} |-> IdleCall]

Next ==
    \/ \E image \in SourceSizes : DetectCall(1, image)
    \/ \E outputData \in EngineOutputs : RunResolves(1, outputData)
    \/ Settled(1)

Spec == Init /\ [][Next]_vars

(* The life cycle of one instance from construction, overlapping calls *)

DetectorInit ==
    /\ AppInit
    /\ TensorIdle
    /\ session = NoSession
    /\ initPending = 0
    /\ initFailed = FALSE
    /\ initResolved = FALSE
    /\ calls = [c \in 1..MaxCalls |-> IdleCall]

DetectorNext ==
    \/ InitializeCall
    \/ CreateResolves
    \/ CreateRejects
    \/ \E c \in 1..MaxCalls, image \in FewSizes : DetectCall(c, image)
    \/ \E c \in 1..MaxCalls, outputData \in FewOutputs : RunResolves(c, outputData)
    \/ \E c \in 1..MaxCalls : RunRejects(c)
    \/ \E c \in 1..MaxCalls : Settled(c)

SpecDetector == DetectorInit /\ [][DetectorNext]_vars

(* One detect() at a time on an initialized detector, with the inputs at   *)
(* the edges of the domain: rasters without pixels, rasters whose scaled   *)
(* size is not integral, engine outputs of the wrong length and candidates *)
(* of equal confidence                                                     *)

\* <<sourceWidth, sourceHeight, state>>: "complete" for a decoded image or a
\* video with a current frame, "pending" for an image not yet decoded or a
\* video without a frame, "broken" for an image that failed to load
BoundarySources ==
    { <<1280, 720, "complete">>, <<640, 640, "complete">>,
      <<300, 200, "complete">>, <<0, 0, "pending">>, <<0, 480, "pending">>,
      <<0, 0, "broken">> }

BoundaryDetections ==
    { <<Num(320), Num(320), Num(640), Num(360), Rat(9, 10)>>,
      <<Num(320), Num(320), Num(640), Num(640), Rat(7, 10)>>,
      <<Num(320), Num(320), Num(360), Num(640), Rat(7, 10)>>,
      <<Num(100), Num(100), Num(40), Num(40), Rat(3, 5)>>,
      <<Num(100), Num(100), Num(40), Num(40), Rat(2, 5)>> }

WellFormedOutputs ==
    { Flatten(dets) : dets \in [1..NumBoxes -> BoundaryDetections] }

\* buffers whose length is not 5 * numBoxes: the first channel alone, all but
\* the confidence channel, and one element too many
MalformedOutputs ==
    LET full == Flatten([i \in 1..NumBoxes |->
                    <<Num(320), Num(320), Num(640), Num(360), Rat(9, 10)>>])
    IN  { SubSeq(full, 1, NumBoxes), SubSeq(full, 1, 4 * NumBoxes),
          full \o <<Num(0)>> }

BoundaryOutputs == WellFormedOutputs \cup MalformedOutputs

BoundaryNext ==
    \/ \E image \in BoundarySources : DetectCall(1, image)
    \/ \E outputData \in BoundaryOutputs : RunResolves(1, outputData)
    \/ RunRejects(1)
    \/ Settled(1)

SpecBoundary == Init /\ [][BoundaryNext]_vars

(* preprocess from getImageData on: any pixels on the canvas *)

TensorInit ==
    /\ AppInit
    /\ session = <<1>>
    /\ initPending = 0
    /\ initFailed = FALSE
    /\ initResolved = TRUE
    /\ calls = [c \in {1} |-> IdleCall]
    /\ data \in PixelData(NumPixels)
    /\ float32Data = <<>>

\* the tensor is built from the pixels read back
BuildTensor ==
    /\ float32Data = <<>>
    /\ float32Data' = ToTensor(data)
    /\ UNCHANGED <<data, detectorVars, appVars>>

TensorNext == BuildTensor

SpecTensor == TensorInit /\ [][TensorNext]_vars

-----------------------------------------------------------------------------
(* Properties of the detection pipeline, checked under Spec *)

Resolved(c) == calls[c].st = "resolved"

\* intersection over union as the design defines it: 0 when the union is 0
IoU(a, b) ==
    IF UnionArea(a, b) = Num(0) THEN Num(0)
    ELSE JsDiv(IntersectionArea(a, b), UnionArea(a, b))

PairwiseBelowThreshold(bs) ==
    \A i, j \in 1..Len(bs) : i # j => JsLess(IoU(bs[i], bs[j]), iouThreshold)

\* C1: every two distinct boxes returned by nonMaxSuppression, and every two
\* distinct boxes returned by detect(), have IoU strictly below iouThreshold.
C1_PairsBelowIouThreshold ==
    \A c \in DOMAIN calls : Resolved(c) =>
        /\ PairwiseBelowThreshold(calls[c].nmsBoxes)
        /\ PairwiseBelowThreshold(calls[c].result)

\* a call in which NMS dropped a candidate and still returned two boxes
C1_Witness ==
    \E c \in DOMAIN calls :
        /\ Resolved(c)
        /\ Len(calls[c].nmsBoxes) < Len(calls[c].boxes)
        /\ Len(calls[c].result) >= 2

\* the inverse letterbox transform with the geometry preprocess drew with
InverseX(x, c) == JsDiv(JsSub(x, calls[c].draw.dx), calls[c].scale)

InverseY(y, c) == JsDiv(JsSub(y, calls[c].draw.dy), calls[c].scale)

\* C2: the coordinates returned by detect() are (x - padX)/scale and
\* (y - padY)/scale of the NMS survivor, with the scale and the offsets
\* preprocess drew the source with; the offsets postprocess recomputes are
\* those offsets.
C2_RescaleInvertsDrawing ==
    \A c \in DOMAIN calls : Resolved(c) =>
        /\ PostOffsets(calls[c].scaleX, calls[c].scaleY)
               = [dx |-> calls[c].draw.dx, dy |-> calls[c].draw.dy]
        /\ \A k \in 1..Len(calls[c].result) :
              /\ calls[c].result[k].x1 = InverseX(calls[c].nmsBoxes[k].x1, c)
              /\ calls[c].result[k].y1 = InverseY(calls[c].nmsBoxes[k].y1, c)
              /\ calls[c].result[k].x2 = InverseX(calls[c].nmsBoxes[k].x2, c)
              /\ calls[c].result[k].y2 = InverseY(calls[c].nmsBoxes[k].y2, c)

\* the model-space box b covers exactly what drawImage drew for call c
CoversDrawnRegion(b, c) ==
    /\ b.x1 = calls[c].draw.dx
    /\ b.y1 = calls[c].draw.dy
    /\ b.x2 = JsAdd(calls[c].draw.dx, calls[c].draw.dw)
    /\ b.y2 = JsAdd(calls[c].draw.dy, calls[c].draw.dh)

\* C3: the box covering the drawn region comes back as the full source frame
\* (0, 0, sourceWidth, sourceHeight), and every returned box, put through the
\* letterbox transform again, is the model-space box it came from.
C3_DrawnRegionMapsToSourceFrame ==
    \A c \in DOMAIN calls : Resolved(c) =>
        \A k \in 1..Len(calls[c].result) :
            LET b == calls[c].nmsBoxes[k]
                r == calls[c].result[k]
            IN  /\ CoversDrawnRegion(b, c) =>
                      /\ r.x1 = Num(0)
                      /\ r.y1 = Num(0)
                      /\ r.x2 = Num(calls[c].image[1])
                      /\ r.y2 = Num(calls[c].image[2])
                /\ JsAdd(JsMul(r.x1, calls[c].scale), calls[c].draw.dx) = b.x1
                /\ JsAdd(JsMul(r.y1, calls[c].scale), calls[c].draw.dy) = b.y1
                /\ JsAdd(JsMul(r.x2, calls[c].scale), calls[c].draw.dx) = b.x2
                /\ JsAdd(JsMul(r.y2, calls[c].scale), calls[c].draw.dy) = b.y2

\* the engine's value at channel ch (0 cx, 1 cy, 2 w, 3 h, 4 confidence) for
\* the candidate a box was decoded from
Raw(c, box, ch) == At(calls[c].outputData, ch * NumBoxes + box.ref)

C8_ZeroUnionGivesZeroIoU ==
    \A c \in DOMAIN calls : Resolved(c) =>
        \A i, j \in 1..Len(calls[c].boxes) :
            (i # j /\ UnionArea(calls[c].boxes[i], calls[c].boxes[j]) = Num(0)) =>
                /\ CalculateIoU(calls[c].boxes[i], calls[c].boxes[j]) = Num(0)
                /\ Keeps(calls[c].boxes[i], calls[c].boxes[j])

InResult(c, box) ==
    \E k \in 1..Len(calls[c].nmsBoxes) : calls[c].nmsBoxes[k].ref = box.ref

\* C9: some candidate of greatest confidence is in the result of
\* nonMaxSuppression, and a candidate is absent from it if and only if its IoU
\* with a retained box of confidence >= its own is >= iouThreshold.
C9_GreedyByConfidence ==
    \A c \in DOMAIN calls : Resolved(c) =>
        LET boxes == calls[c].boxes
            nms == calls[c].nmsBoxes
        IN  /\ boxes # <<>> =>
                  \E k \in 1..Len(nms) : \A i \in 1..Len(boxes) :
                      JsGeq(nms[k].confidence, boxes[i].confidence)
            /\ \A i \in 1..Len(boxes) :
                  ~InResult(c, boxes[i]) <=>
                      \E k \in 1..Len(nms) :
                          /\ nms[k].ref # boxes[i].ref
                          /\ JsGeq(nms[k].confidence, boxes[i].confidence)
                          /\ JsGeq(CalculateIoU(nms[k], boxes[i]), iouThreshold)

\* C15: for a source of exactly modelWidth x modelHeight, preprocess uses
\* scale 1 and draws at offset (0, 0), and detect() returns every box that
\* survives NMS with the coordinates it had in model space.
C15_ModelSizedSourceIsIdentity ==
    \A c \in DOMAIN calls :
        (calls[c].st \in {"running", "resolved"}
            /\ calls[c].image[1] = modelWidth /\ calls[c].image[2] = modelHeight) =>
            /\ calls[c].scale = Num(1)
            /\ calls[c].draw.dx = Num(0) /\ calls[c].draw.dy = Num(0)
            /\ \A k \in 1..Len(calls[c].result) :
                  /\ calls[c].result[k].x1 = calls[c].nmsBoxes[k].x1
                  /\ calls[c].result[k].y1 = calls[c].nmsBoxes[k].y1
                  /\ calls[c].result[k].x2 = calls[c].nmsBoxes[k].x2
                  /\ calls[c].result[k].y2 = calls[c].nmsBoxes[k].y2

\* detect() on a 640x640 source has returned two boxes away from the origin
C15_Witness ==
    \E c \in DOMAIN calls :
        /\ Resolved(c)
        /\ calls[c].image[1] = modelWidth /\ calls[c].image[2] = modelHeight
        /\ Len(calls[c].result) >= 2
        /\ \E k \in 1..Len(calls[c].result) :
               JsLess(Num(0), calls[c].result[k].x1)

\* C16: when every candidate confidence in the engine's output is below the
\* confidence threshold, detect() returns the empty list, without an error.
C16_AllBelowThresholdGivesEmpty ==
    \A c \in DOMAIN calls :
        (calls[c].st \in {"resolved", "rejected"}
            /\ \A i \in 0..(NumBoxes - 1) :
                   JsLess(At(calls[c].outputData, 4 * NumBoxes + i), confidenceThreshold)) =>
            /\ Resolved(c)
            /\ calls[c].error = NULL
            /\ calls[c].boxes = <<>>
            /\ calls[c].result = <<>>

\* detect() has returned for an output whose confidences are all below 0.5
C16_Witness ==
    \E c \in DOMAIN calls :
        /\ Resolved(c)
        /\ Len(calls[c].outputData) = boxDataSize * NumBoxes
        /\ \A i \in 0..(NumBoxes - 1) :
               JsLess(At(calls[c].outputData, 4 * NumBoxes + i), confidenceThreshold)

\* the indices of the buffer whose confidence passes the threshold, ascending
RECURSIVE PassingFrom(_, _)
PassingFrom(outputData, i) ==
    IF i >= NumBoxes THEN <<>>
    ELSE IF JsGeq(outputData[4 * NumBoxes + i + 1], confidenceThreshold)
         THEN <<i>> \o PassingFrom(outputData, i + 1)
    ELSE PassingFrom(outputData, i + 1)

\* C18: the decoder emits one candidate for each index i whose confidence
\* buf[4*numBoxes+i] passes the threshold, in index order, and nothing for
\* the other indices; the candidate has x1 = buf[i] - buf[2*numBoxes+i]/2,
\* y1 = buf[numBoxes+i] - buf[3*numBoxes+i]/2, x2 = buf[i] + buf[2*numBoxes+i]/2,
\* y2 = buf[numBoxes+i] + buf[3*numBoxes+i]/2, that confidence and the label
\* 'pothole'.
C18_DecoderEmitsPassingCandidates ==
    \A c \in DOMAIN calls : Resolved(c) =>
        LET buf == calls[c].outputData
            passing == PassingFrom(buf, 0)
            half(v) == JsDiv(v, Num(2))
        IN  /\ Len(calls[c].boxes) = Len(passing)
            /\ \A k \in 1..Len(passing) :
                  LET i == passing[k]
                      box == calls[c].boxes[k]
                  IN  /\ box.x1 = JsSub(buf[i + 1], half(buf[2 * NumBoxes + i + 1]))
                      /\ box.y1 = JsSub(buf[NumBoxes + i + 1], half(buf[3 * NumBoxes + i + 1]))
                      /\ box.x2 = JsAdd(buf[i + 1], half(buf[2 * NumBoxes + i + 1]))
                      /\ box.y2 = JsAdd(buf[NumBoxes + i + 1], half(buf[3 * NumBoxes + i + 1]))
                      /\ box.confidence = buf[4 * NumBoxes + i + 1]
                      /\ box.label = "pothole"

\* the decoder has emitted candidates for some indices and none for another
C18_Witness ==
    \E c \in DOMAIN calls :
        /\ Resolved(c)
        /\ Len(calls[c].boxes) = 2
        /\ calls[c].boxes[1].x1 # calls[c].boxes[2].x1
        /\ calls[c].boxes[1].confidence # calls[c].boxes[2].confidence

-----------------------------------------------------------------------------
(* Properties of the detector's life cycle, checked under SpecDetector *)

\* C4: a detect() call made while no initialize() call has resolved (none
\* made, or one still pending) rejects with the not-initialized error, and
\* it has neither preprocessed the raster nor invoked the engine.
C4_DetectBeforeInitializeRejects ==
    [][ \A c \in DOMAIN calls :
            (~initResolved /\ calls[c].st = "idle" /\ calls'[c].st # "idle") =>
                /\ calls'[c].st = "rejected"
                /\ calls'[c].error = "NotInitialized"
                /\ ~calls'[c].preprocessed
                /\ ~calls'[c].engineInvoked ]_vars

\* detect() has rejected as not initialized while an initialize() is pending
C4_Witness ==
    \E c \in DOMAIN calls :
        /\ calls[c].st = "rejected"
        /\ calls[c].error = "NotInitialized"
        /\ initPending > 0
        /\ ~initResolved

\* C10 as stated: no detect() call made after an initialize() call has failed
\* succeeds.
C10_FailedIsTerminal ==
    \A c \in DOMAIN calls : calls[c].afterInitFailure => ~Resolved(c)

\* C10 (amended): a failed initialize() leaves the session as it was, so a
\* detect() call made after a failure passes the session check exactly when
\* some initialize() call on the instance has resolved, before or after the
\* failure, and rejects as not initialized otherwise.
C10_FailureLeavesSessionUnchanged ==
    [][ /\ (initFailed' /\ ~initFailed) => session' = session
        /\ \A c \in DOMAIN calls :
              (initFailed /\ calls[c].st = "idle" /\ calls'[c].st # "idle") =>
                  IF initResolved
                  THEN calls'[c].st = "running" /\ calls'[c].engineInvoked
                  ELSE calls'[c].st = "rejected"
                       /\ calls'[c].error = "NotInitialized" ]_vars

\* a detect() call made after a failed initialize() has returned boxes
C10_Witness ==
    \E c \in DOMAIN calls :
        calls[c].afterInitFailure /\ Resolved(c) /\ calls[c].result # <<>>

\* C11: a step of one detect() call leaves the record of every other call and
\* the detector's fields as they were, and the boxes a call returns are those
\* postprocess computes from that call's engine output with the scaleX and
\* scaleY preprocess computes from that call's raster, whatever other calls
\* are in flight.
C11_CallsAreIndependent ==
    [][ \A c \in DOMAIN calls : calls'[c] # calls[c] =>
            /\ \A d \in DOMAIN calls \ {c} : calls'[d] = calls[d]
            /\ session' = session
            /\ calls'[c].st = "resolved" =>
                   LET own == Preprocess(calls'[c].image)
                   IN  calls'[c].result =
                           Postprocess(calls'[c].outputData,
                                       own.scaleX, own.scaleY).result ]_vars

\* two calls on rasters of different sizes are in flight at once, each after
\* its own preprocess
C11_Witness ==
    \E c, d \in InFlight :
        /\ c # d
        /\ calls[c].image # calls[d].image
        /\ calls[c].scaleX # calls[d].scaleX

\* C17: an initialize() whose model load fails rejects to its caller and
\* leaves the detector without the session it asked for, and a detect() call
\* whose engine run fails rejects to its caller with the engine's error and
\* without boxes: a call returns only what postprocess makes of an output the
\* engine produced.
C17_ErrorsPropagate ==
    [][ /\ initPending' < initPending =>
              \/ initResolved' /\ session' # session
              \/ initFailed' /\ session' = session
        /\ \A c \in DOMAIN calls :
              (calls[c].st = "running" /\ calls'[c].st # "running") =>
                  \/ /\ calls'[c].st = "resolved"
                     /\ calls'[c].error = NULL
                     /\ calls'[c].outputData \in FewOutputs
                  \/ /\ calls'[c].st = "rejected"
                     /\ calls'[c].error = "RunFailed"
                     /\ calls'[c].outputData = <<>>
                     /\ calls'[c].result = <<>> ]_vars

\* an initialize() has failed on a detector that never had a session, and a
\* detect() call of a later session has been rejected by the engine
C17_Witness ==
    \E c \in DOMAIN calls :
        /\ initFailed
        /\ calls[c].st = "rejected"
        /\ calls[c].error = "RunFailed"
        /\ calls[c].afterInitFailure

-----------------------------------------------------------------------------
(* Properties at the edges of the input domain, checked under SpecBoundary *)

\* C12: a detect() call whose engine output does not have length
\* 5 * numBoxes does not return: a call that has returned boxes got a buffer
\* of exactly that length.
C12_MalformedOutputFails ==
    \A c \in DOMAIN calls :
        Resolved(c) => Len(calls[c].outputData) = boxDataSize * NumBoxes

\* C13: a detect() call on a raster of width 0 or height 0 has failed and the
\* engine has not been invoked for it.
C13_EmptyRasterFails ==
    \A c \in DOMAIN calls :
        (calls[c].st # "idle" /\ (calls[c].image[1] = 0 \/ calls[c].image[2] = 0)) =>
            /\ calls[c].st = "rejected"
            /\ ~calls[c].engineInvoked

\* a call that went through preprocess on a raster of positive size
Letterboxed(c) ==
    /\ calls[c].st \in {"running", "resolved"}
    /\ calls[c].image[1] > 0 /\ calls[c].image[2] > 0

\* min(modelWidth/w, modelHeight/h), by comparing the cross products
ExpectedScale(w, h) ==
    IF modelWidth * h <= modelHeight * w THEN Rat(modelWidth, w)
    ELSE Rat(modelHeight, h)

\* the finite number a rounded to the nearest integer, halves upwards
Round(a) == Num((2 * a[1] + a[2]) \div (2 * a[2]))

\* the letterbox geometry for scaled sizes sw and sh
GeometryIs(c, s, sw, sh) ==
    /\ calls[c].scale = s
    /\ calls[c].draw.dw = sw
    /\ calls[c].draw.dh = sh
    /\ calls[c].draw.dx = JsDiv(JsSub(Num(modelWidth), sw), Num(2))
    /\ calls[c].draw.dy = JsDiv(JsSub(Num(modelHeight), sh), Num(2))

Scenario1(c) ==
    (calls[c].image[1] = 1280 /\ calls[c].image[2] = 720) =>
        /\ calls[c].scale = Rat(1, 2)
        /\ calls[c].draw = [dx |-> Num(0), dy |-> Num(140),
                            dw |-> Num(640), dh |-> Num(360)]

\* C14 as stated: the scaled width and height are sourceWidth * scale and
\* sourceHeight * scale rounded to integers, and the padding is half of what
\* the rounded sizes leave of the model frame.
C14_LetterboxRounded ==
    \A c \in DOMAIN calls : Letterboxed(c) =>
        LET w == calls[c].image[1]
            h == calls[c].image[2]
            s == ExpectedScale(w, h)
        IN  /\ GeometryIs(c, s, Round(Rat(w * s[1], s[2])), Round(Rat(h * s[1], s[2])))
            /\ Scenario1(c)

\* C14 (amended): for every source of positive size preprocess uses
\* scale = min(modelWidth/sourceWidth, modelHeight/sourceHeight), the scaled
\* sizes sourceWidth * scale and sourceHeight * scale without rounding, and
\* padX = (modelWidth - scaledWidth)/2, padY = (modelHeight - scaledHeight)/2;
\* 1280x720 gives scale 1/2, 640x360, padX 0 and padY 140.
C14_LetterboxExact ==
    \A c \in DOMAIN calls : Letterboxed(c) =>
        LET w == calls[c].image[1]
            h == calls[c].image[2]
            s == ExpectedScale(w, h)
        IN  /\ GeometryIs(c, s, Rat(w * s[1], s[2]), Rat(h * s[1], s[2]))
            /\ Scenario1(c)

\* preprocess has drawn a 300x200 source, whose scaled height is not integral
C14_Witness ==
    \E c \in DOMAIN calls :
        /\ Letterboxed(c)
        /\ calls[c].image[1] = 300 /\ calls[c].image[2] = 200
        /\ calls[c].draw.dh[2] # 1

\* the permutations of 1..n
PermutationsOf(n) ==
    { p \in [1..n -> 1..n] : \A i, j \in 1..n : p[i] = p[j] => i = j }

\* the boxes nonMaxSuppression retains, as a set of values
Retained(boxes) ==
    LET nms == NonMaxSuppression(boxes)
    IN  { <<nms[k].x1, nms[k].y1, nms[k].x2, nms[k].y2, nms[k].confidence>> :
            k \in 1..Len(nms) }

OrderIrrelevant(boxes) ==
    \A p \in PermutationsOf(Len(boxes)) :
        Retained([k \in 1..Len(boxes) |-> boxes[p[k]]]) = Retained(boxes)

DistinctConfidences(boxes) ==
    \A i, j \in 1..Len(boxes) :
        i # j => boxes[i].confidence # boxes[j].confidence

\* C20 as stated: nonMaxSuppression retains the same set of boxes for every
\* permutation of its candidate list.
C20_OrderIndependent ==
    \A c \in DOMAIN calls : Resolved(c) => OrderIrrelevant(calls[c].boxes)

\* C20 (amended): nonMaxSuppression retains the same set of boxes for every
\* permutation of a candidate list whose confidences are pairwise distinct.
C20_OrderIndependentForDistinctConfidences ==
    \A c \in DOMAIN calls :
        (Resolved(c) /\ DistinctConfidences(calls[c].boxes)) =>
            OrderIrrelevant(calls[c].boxes)

\* NMS has suppressed one of three candidates of pairwise distinct confidence
C20_Witness ==
    \E c \in DOMAIN calls :
        /\ Resolved(c)
        /\ Len(calls[c].boxes) = 3
        /\ DistinctConfidences(calls[c].boxes)
        /\ Len(calls[c].nmsBoxes) = 2

\* C23: rescaling changes the four coordinates alone: its result has the
\* length and the order of the NMS survivors, each box keeps its confidence
\* and its label, and each coordinate is the rescaled value itself, also
\* where that lies below 0 or beyond the source's width or height.
C23_RescaleChangesOnlyCoordinates ==
    \A c \in DOMAIN calls :
        Resolved(c) =>
            LET sx == calls[c].scaleX
                sy == calls[c].scaleY
                dx == JsDiv(JsSub(Num(modelWidth), JsDiv(Num(modelWidth), sx)), Num(2))
                dy == JsDiv(JsSub(Num(modelHeight), JsDiv(Num(modelHeight), sy)), Num(2))
            IN  /\ Len(calls[c].result) = Len(calls[c].nmsBoxes)
                /\ \A k \in 1..Len(calls[c].nmsBoxes) :
                      LET in == calls[c].nmsBoxes[k]
                          out == calls[c].result[k]
                      IN  /\ out.confidence = in.confidence
                          /\ out.label = in.label
                          /\ out.ref = in.ref
                          /\ out.x1 = JsMul(JsSub(in.x1, dx), sx)
                          /\ out.y1 = JsMul(JsSub(in.y1, dy), sy)
                          /\ out.x2 = JsMul(JsSub(in.x2, dx), sx)
                          /\ out.y2 = JsMul(JsSub(in.y2, dy), sy)

\* detect() has returned two boxes, one that starts left of the source and
\* one that ends below it
C23_Witness ==
    \E c \in DOMAIN calls :
        /\ Resolved(c)
        /\ Len(calls[c].result) >= 2
        /\ \E k \in 1..Len(calls[c].result) :
               JsLess(calls[c].result[k].x1, Num(0))
        /\ \E k \in 1..Len(calls[c].result) :
               JsLess(Num(calls[c].image[2]), calls[c].result[k].y2)

\* C29: nonMaxSuppression terminates: every iteration of its loop selects one
\* box and removes at least that box from the list, whatever the IoU values
\* (undefined ones included), so no candidate is selected twice and the
\* number of iterations, which is the number of selected boxes, is at most
\* the number of candidates.
C29_NmsIterationsBounded ==
    \A c \in DOMAIN calls :
        Resolved(c) =>
            /\ Len(calls[c].nmsBoxes) <= Len(calls[c].boxes)
            /\ \A i, j \in 1..Len(calls[c].nmsBoxes) :
                  i # j => calls[c].nmsBoxes[i].ref # calls[c].nmsBoxes[j].ref

\* nonMaxSuppression has run on three candidates, two of which have an
\* undefined IoU, and has selected fewer than three
C29_Witness ==
    \E c \in DOMAIN calls :
        /\ Resolved(c)
        /\ Len(calls[c].boxes) = 3
        /\ \E i, j \in 1..3 :
               i # j /\ IsNaN(CalculateIoU(calls[c].boxes[i], calls[c].boxes[j]))
        /\ Len(calls[c].nmsBoxes) \in 1..2

-----------------------------------------------------------------------------
(* The input tensor, checked under SpecTensor *)

\* C24: the tensor has 3 * H * W elements in planar channel-major order:
\* element p is R(p)/255, element H*W + p is G(p)/255 and element 2*H*W + p
\* is B(p)/255, each as the single-precision number the tensor stores for
\* it; alpha is dropped, and every element lies in [0, 1].
C24_TensorIsPlanarAndNormalized ==
    float32Data # <<>> =>
        /\ Len(float32Data) = 3 * NumPixels
        /\ \A p \in 1..NumPixels :
              /\ float32Data[p] = Fround(Rat(data[4 * (p - 1) + 1], 255))
              /\ float32Data[NumPixels + p] = Fround(Rat(data[4 * (p - 1) + 2], 255))
              /\ float32Data[2 * NumPixels + p] = Fround(Rat(data[4 * (p - 1) + 3], 255))
        /\ \A k \in 1..Len(float32Data) :
              JsLeq(Num(0), float32Data[k]) /\ JsLeq(float32Data[k], Num(1))

\* a tensor has been built from pixels whose three channels differ and whose
\* colours differ
C24_Witness ==
    /\ float32Data # <<>>
    /\ data[1] # data[2] /\ data[2] # data[3]
    /\ data[1] # data[5]

\* s is t with some elements left out
RECURSIVE IsSubList(_, _)
IsSubList(s, t) ==
    IF s = <<>> THEN TRUE
    ELSE IF t = <<>> THEN FALSE
    ELSE IF Head(s) = Head(t) THEN IsSubList(Tail(s), Tail(t))
    ELSE IsSubList(s, Tail(t))

NonIncreasing(bs) ==
    \A k \in 1..(Len(bs) - 1) : JsGeq(bs[k].confidence, bs[k + 1].confidence)

\* C30: the result of nonMaxSuppression is its (sorted) candidate list with
\* some boxes left out, none added, altered or repeated, in non-increasing
\* order of confidence; so are the boxes detect() returns.
C30_NmsResultIsOrderedSubList ==
    \A c \in DOMAIN calls :
        Resolved(c) =>
            /\ IsSubList(calls[c].nmsBoxes, SortByConfidence(calls[c].boxes))
            /\ NonIncreasing(calls[c].nmsBoxes)
            /\ NonIncreasing(calls[c].result)

\* detect() has returned two of three candidates that the engine did not
\* emit in order of confidence
C30_Witness ==
    \E c \in DOMAIN calls :
        /\ Resolved(c)
        /\ Len(calls[c].boxes) = 3
        /\ JsLess(calls[c].boxes[1].confidence, calls[c].boxes[3].confidence)
        /\ Len(calls[c].result) = 2
        /\ JsLess(calls[c].result[2].confidence, calls[c].result[1].confidence)

-----------------------------------------------------------------------------
(* The application, from its first render *)

AppNext ==
    \/ ModelInitResolves
    \/ ModelInitRejects
    \/ HandleFileChange
    \/ \E f \in 1..MaxUploads : ReaderOnLoad(f)
    \/ RunDetection
    \/ ScanResolves
    \/ ScanRejects
    \/ StopLive
    \/ \E a \in 1..MaxStarts : StartLive(a)
    \/ \E a \in 1..MaxStarts : GetUserMediaResolves(a)
    \/ \E a \in 1..MaxStarts : GetUserMediaRejects(a)
    \/ \E a \in 1..MaxStarts : PlayResolves(a)
    \/ \E a \in 1..MaxStarts : PlayRejects(a)
    \/ HandleReset
    \/ \E l \in 1..MaxLoops : FrameFires(l)
    \/ \E l \in 1..MaxLoops : LiveDetectResolves(l)
    \/ \E l \in 1..MaxLoops : LiveDetectRejects(l)

SpecApp == DetectorInit /\ [][AppNext]_vars

\* the detect() calls in flight on the application's detector
DetectsInFlight ==
    (IF scan # 0 THEN 1 ELSE 0)
        + Cardinality({l \in 1..MaxLoops : loops[l] = "detecting"})

\* C5: at most one detect() call is in flight on the detector at any time.
C5_AtMostOneDetectInFlight == DetectsInFlight <= 1

\* C19: the detections state holds boxes only for the input currently shown:
\* a result that arrives after its input was reset or replaced is not stored.
C19_DetectionsAreForShownInput == detections # 0 => detections = imageSrc

-----------------------------------------------------------------------------
(* The session handle, checked under SpecDetector *)

\* C21: once a successful initialize() has set the session handle, no later
\* initialize() or detect() call replaces or clears it.
C21_SessionHandleIsFixed ==
    [][session # NoSession => session' = session]_vars

-----------------------------------------------------------------------------
(* The application's use of the detector and of the camera, checked under   *)
(* SpecApp                                                                   *)

\* C22: the detector state is set only once initialize() has resolved, and a
\* detect() call is in flight (from runDetection or from runLiveDetection)
\* only on a detector whose initialize() has resolved.
C22_DetectOnlyAfterInitialize ==
    (detector \/ DetectsInFlight > 0) => modelInit = "resolved"

\* a scan and a live detection have each called detect()
C22_Witness ==
    /\ scan # 0
    /\ \E l \in 1..MaxLoops : loops[l] = "detecting"

\* C25: after the webcam is turned off the live loop stops: once no detect()
\* call of the loop is in flight any more, no animation frame of the loop is
\* pending as long as the webcam stays off.
C25_LiveLoopStopsWhenOff ==
    (~isWebcamOn /\ \A l \in 1..MaxLoops : loops[l] # "detecting") =>
        \A l \in 1..MaxLoops : loops[l] # "frame"

\* C26: an uploaded image and the webcam are never shown together: imageSrc
\* is null whenever isWebcamOn is true.
C26_ImageAndWebcamExclusive == ~(imageSrc # 0 /\ isWebcamOn)

\* C27: whenever isWebcamOn is false and no webcam start is pending (no
\* getUserMedia call and no play() awaits its outcome), no stream obtained
\* from getUserMedia still has running tracks.
C27_NoStreamLeftRunning ==
    (~isWebcamOn /\ \A a \in 1..MaxStarts : starts[a] \in {"none", "over"}) =>
        liveStreams = {}

\* C28: the step in which initializeModel's initialize() settles ends with
\* isLoading false, with the detector set and no error if it resolved, and
\* with the error set and no detector if it rejected; the step in which a
\* runDetection's detect() settles ends with isLoading false, with either the
\* boxes stored or, on rejection, the error set and detections empty.
C28_LoadingFlagClears ==
    [][ /\ (modelInit = "pending" /\ modelInit' # "pending") =>
              /\ ~isLoading'
              /\ modelInit' = "resolved" => (detector' /\ error' = NULL)
              /\ modelInit' = "rejected" => (~detector' /\ error' = "model")
        /\ (scan # 0 /\ scan' = 0) =>
              /\ ~isLoading'
              /\ \/ detections' = scan /\ error' = error
                 \/ detections' = 0 /\ error' = "detect" ]_vars

\* a runDetection has ended with its detect() rejected
C28_Witness == modelInit = "resolved" /\ scan = 0 /\ error = "detect" /\ ~isLoading

====
